---- MODULE Spec2Model ----
(***************************************************************************)
(* Model of address.go: construction of an address (newAddress), import of *)
(* one serialised address (importAddress and the per-version importers),   *)
(* and import of a list of them (importAddresses).                         *)
(***************************************************************************)
EXTENDS Integers, Sequences, FiniteSets, TLC

\* Longest source list handed to importAddresses.
MaxLen == 3

----------------------------------------------------------------------------
\* Dynamically typed values (Go's interface{}) found in a parsed document.

StringV(s) == [kind |-> "string", str |-> s, num |-> 0]
IntV(n) == [kind |-> "int", str |-> "", num |-> n]
NilV == [kind |-> "nil", str |-> "", num |-> 0]

\* m[k] = v on a Go map.
MapPut(m, k, v) == [x \in (DOMAIN m) \cup {k} |-> IF x = k THEN v ELSE m[x]]

\* The map with no key.
EmptyMap == [x \in {} |-> NilV]

----------------------------------------------------------------------------
\* Errors.  annot is the stack of annotations, outermost first; index is the
\* element index the message carries, or -1 when it carries none.

NoErr == [kind |-> "nil", annot |-> <<>>, version |-> 0, field |-> "",
          index |-> 0 - 1, got |-> ""]

SchemaErr(kind, field, got) == [NoErr EXCEPT !.kind = kind, !.field = field, !.got = got]

\* errors.Annotate / errors.Annotatef: same cause, one more annotation.
Annotate(err, msg) == [err EXCEPT !.annot = <<msg>> \o @]

\* errors.Trace: records the location only; message and cause are unchanged.
Trace(err) == err

\* errors.NotValidf("version %d", version)
NotValidf(version) == [NoErr EXCEPT !.kind = "NotValid", !.version = version]

\* errors.Errorf("unexpected value for address %d, %T", i, value)
UnexpectedValuef(i, value) == [NoErr EXCEPT !.kind = "UnexpectedValue", !.index = i,
                                            !.got = value.type]

----------------------------------------------------------------------------
\* The field specifications.

\* Slip: type is given a default, which makes it optional.
addressV1Fields_TypeOptional ==
    [fields   |-> [k \in {"value", "type", "scope", "origin"} |-> "string"],
     defaults |-> [k \in {"type", "scope", "origin"} |-> StringV("")]]

addressV1Fields ==
    [fields   |-> [k \in {"value", "type", "scope", "origin"} |-> "string"],
     defaults |-> [k \in {"scope", "origin"} |-> StringV("")]]

\* Slip: spaceid is added without its default, which makes it required.
addressV2Fields_NoDefault ==
    LET base == addressV1Fields
    IN  [fields   |-> MapPut(base.fields, "spaceid", "string"),
         defaults |-> base.defaults]

addressV2Fields ==
    LET base == addressV1Fields
    IN  [fields   |-> MapPut(base.fields, "spaceid", "string"),
         defaults |-> MapPut(base.defaults, "spaceid", StringV(""))]

addressV3Fields ==
    LET base == addressV2Fields
    IN  [fields   |-> MapPut(base.fields, "cidr", "string"),
         defaults |-> MapPut(base.defaults, "cidr", StringV(""))]

----------------------------------------------------------------------------
\* schema.FieldMap(fields, defaults).Coerce(source, nil).

\* The value the checker of field k is given: the document's, else the
\* default's, else nothing.
FieldInput(defaults, source, k) ==
    IF k \in DOMAIN source THEN source[k]
    ELSE IF k \in DOMAIN defaults THEN defaults[k]
    ELSE NilV

\* The fields whose value fails its checker.
FailingFields(fields, defaults, source) ==
    {k \in DOMAIN fields : FieldInput(defaults, source, k).kind # fields[k]}

\* The error reported for failing field k: the field is absent with no
\* default, or present with a value of the wrong type.
FieldError(source, k) ==
    IF k \in DOMAIN source
    THEN SchemaErr("FieldType", k, source[k].kind)
    ELSE SchemaErr("FieldMissing", k, "nil")

\* The outcomes of a coercion.  The fields are checked in the iteration order
\* of a Go map, which is unspecified: when several fields fail, the error of
\* any one of them may be the one returned.
Coerce(fields, defaults, source) ==
    LET failing == FailingFields(fields, defaults, source)
    IN  IF failing = {}
        THEN {[valid |-> [k \in DOMAIN fields |-> FieldInput(defaults, source, k)],
               err |-> NoErr]}
        ELSE {[valid |-> EmptyMap, err |-> FieldError(source, k)] : k \in failing}

----------------------------------------------------------------------------
\* The address struct and what a deserialization function returns: addr holds
\* the address (no element: nil), err the error, panic whether a type
\* assertion failed.

Address(version, value, type, scope, origin, spaceid, cidr) ==
    [Version |-> version, Value_ |-> value, Type_ |-> type, Scope_ |-> scope,
     Origin_ |-> origin, SpaceID_ |-> spaceid, CIDR_ |-> cidr]

Returned(addr) == [addr |-> <<addr>>, err |-> NoErr, panic |-> FALSE]
Failed(err) == [addr |-> <<>>, err |-> err, panic |-> FALSE]
Panicked == [addr |-> <<>>, err |-> NoErr, panic |-> TRUE]

\* valid[k].(string) succeeds.
IsString(valid, k) == k \in DOMAIN valid /\ valid[k].kind = "string"

\* AddressArgs: a field the caller does not set has Go's zero value "".
AddressArgs(supplied) ==
    [k \in {"Value", "Type", "Scope", "Origin", "SpaceID", "CIDR"} |->
        IF k \in DOMAIN supplied THEN supplied[k] ELSE ""]

\* Slip: the version stamp was not raised when version 3 was added.
newAddress_StaleVersion(a) ==
    Returned(Address(2, a.Value, a.Type, a.Scope, a.Origin, a.SpaceID, a.CIDR))

newAddress(a) ==
    Returned(Address(3, a.Value, a.Type, a.Scope, a.Origin, a.SpaceID, a.CIDR))

\* Slip: version 1 is checked against the version-2 specification.
importAddressV1_ChecksV2Fields(source) ==
    LET spec == addressV2Fields
    IN  {IF c.err # NoErr
         THEN Failed(Annotate(c.err, "address v1 schema check failed"))
         ELSE IF \E k \in {"value", "type", "scope", "origin"} : ~IsString(c.valid, k)
         THEN Panicked
         ELSE Returned(Address(1, c.valid["value"].str, c.valid["type"].str,
                               c.valid["scope"].str, c.valid["origin"].str, "", ""))
         : c \in Coerce(spec.fields, spec.defaults, source)}

importAddressV1(source) ==
    LET spec == addressV1Fields
    IN  {IF c.err # NoErr
         THEN Failed(Annotate(c.err, "address v1 schema check failed"))
         ELSE IF \E k \in {"value", "type", "scope", "origin"} : ~IsString(c.valid, k)
         THEN Panicked
         ELSE Returned(Address(1, c.valid["value"].str, c.valid["type"].str,
                               c.valid["scope"].str, c.valid["origin"].str, "", ""))
         : c \in Coerce(spec.fields, spec.defaults, source)}

\* Slip: version 2 is checked against the version-1 specification, so
\* valid["spaceid"] is not there to be asserted a string.
importAddressV2_V1Schema(source) ==
    LET spec == addressV1Fields
    IN  {IF c.err # NoErr
         THEN Failed(Annotate(c.err, "address v2 schema check failed"))
         ELSE IF \E k \in {"value", "type", "scope", "origin", "spaceid"} :
                    ~IsString(c.valid, k)
         THEN Panicked
         ELSE Returned(Address(2, c.valid["value"].str, c.valid["type"].str,
                               c.valid["scope"].str, c.valid["origin"].str,
                               c.valid["spaceid"].str, ""))
         : c \in Coerce(spec.fields, spec.defaults, source)}

importAddressV2(source) ==
    LET spec == addressV2Fields
    IN  {IF c.err # NoErr
         THEN Failed(Annotate(c.err, "address v2 schema check failed"))
         ELSE IF \E k \in {"value", "type", "scope", "origin", "spaceid"} :
                    ~IsString(c.valid, k)
         THEN Panicked
         ELSE Returned(Address(2, c.valid["value"].str, c.valid["type"].str,
                               c.valid["scope"].str, c.valid["origin"].str,
                               c.valid["spaceid"].str, ""))
         : c \in Coerce(spec.fields, spec.defaults, source)}

importAddressV3(source) ==
    LET spec == addressV3Fields
    IN  {IF c.err # NoErr
         THEN Failed(Annotate(c.err, "address v3 schema check failed"))
         ELSE IF \E k \in {"value", "type", "scope", "origin", "spaceid", "cidr"} :
                    ~IsString(c.valid, k)
         THEN Panicked
         ELSE Returned(Address(3, c.valid["value"].str, c.valid["type"].str,
                               c.valid["scope"].str, c.valid["origin"].str,
                               c.valid["spaceid"].str, c.valid["cidr"].str))
         : c \in Coerce(spec.fields, spec.defaults, source)}

\* Slip: version 2 is registered with the version-3 function.
addressDeserializationFuncs_Upgrading ==
    (1 :> "importAddressV1") @@ (2 :> "importAddressV3") @@ (3 :> "importAddressV3")

\* The dispatch table: version -> deserialization function.
addressDeserializationFuncs ==
    (1 :> "importAddressV1") @@ (2 :> "importAddressV2") @@ (3 :> "importAddressV3")

\* importFunc(source) for an entry of the table.
CallImportFunc(importFunc, source) ==
    CASE importFunc = "importAddressV1" -> importAddressV1(source)
      [] importFunc = "importAddressV2" -> importAddressV2(source)
      [] importFunc = "importAddressV3" -> importAddressV3(source)

\* getVersion: the integer under "version", or an error when the tag is
\* absent or no integer.
getVersion(source) ==
    IF "version" \in DOMAIN source /\ source["version"].kind = "int"
    THEN [version |-> source["version"].num, err |-> NoErr]
    ELSE [version |-> 0,
          err |-> IF "version" \in DOMAIN source
                  THEN SchemaErr("VersionTag", "version", source["version"].kind)
                  ELSE SchemaErr("VersionTag", "version", "nil")]

\* Slip: a version the table does not know is imported as the latest one.
importAddress_FallbackLatest(source) ==
    LET v == getVersion(source)
    IN  IF v.err # NoErr
        THEN {Failed(Annotate(v.err, "address version schema check failed"))}
        ELSE IF v.version \notin DOMAIN addressDeserializationFuncs
        THEN importAddressV3(source)
        ELSE CallImportFunc(addressDeserializationFuncs[v.version], source)

importAddress(source) ==
    LET v == getVersion(source)
    IN  IF v.err # NoErr
        THEN {Failed(Annotate(v.err, "address version schema check failed"))}
        ELSE IF v.version \notin DOMAIN addressDeserializationFuncs
        THEN {Failed(NotValidf(v.version))}
        ELSE CallImportFunc(addressDeserializationFuncs[v.version], source)

----------------------------------------------------------------------------
\* The documents and arguments the operations are run on.

FieldKeys == {"value", "type", "scope", "origin", "spaceid", "cidr"}

\* A non-empty string for each key, all different.
FieldSample ==
    [value |-> "10.0.0.1", type |-> "ipv4", scope |-> "local-cloud",
     origin |-> "machine", spaceid |-> "3", cidr |-> "10.0.0.0/24"]

\* What a document holds under a key: nothing, "", a non-empty string, an
\* integer, or null.
Shapes == {"absent", "empty", "sample", "int", "nil"}

ShapeValue(shape, sample) ==
    CASE shape = "empty" -> StringV("")
      [] shape = "sample" -> StringV(sample)
      [] shape = "int" -> IntV(7)
      [] OTHER -> NilV

\* Version tags: none, one that is no integer, and integers in and out of the
\* dispatch table.
VersionTags == {"absent", "string", "0", "1", "2", "3", "99"}

VersionValue(tag) ==
    CASE tag = "string" -> StringV("three")
      [] tag = "0" -> IntV(0)
      [] tag = "1" -> IntV(1)
      [] tag = "2" -> IntV(2)
      [] tag = "3" -> IntV(3)
      [] OTHER -> IntV(99)

\* A key no version's specification knows.
ExtraShapes == {"absent", "int"}

MkDoc(p, tag, extra) ==
    [k \in {f \in FieldKeys : p[f] # "absent"}
           \cup (IF tag = "absent" THEN {} ELSE {"version"})
           \cup (IF extra = "absent" THEN {} ELSE {"provider-id"}) |->
        IF k = "version" THEN VersionValue(tag)
        ELSE IF k = "provider-id" THEN ShapeValue(extra, "")
        ELSE ShapeValue(p[k], FieldSample[k])]

\* The keys that are tried with a null value too: a required one and an
\* optional one.
NullableKeys == {"value", "scope"}

DocShapes == {p \in [FieldKeys -> Shapes] : \A k \in FieldKeys : p[k] = "nil" => k \in NullableKeys}

Docs == {MkDoc(p, tag, extra) : p \in DocShapes, tag \in VersionTags, extra \in ExtraShapes}

ArgKeys == {"Value", "Type", "Scope", "Origin", "SpaceID", "CIDR"}

ArgSample ==
    [Value |-> "10.0.0.1", Type |-> "ipv4", Scope |-> "local-cloud",
     Origin |-> "machine", SpaceID |-> "3", CIDR |-> "10.0.0.0/24"]

\* The fields a caller sets in the AddressArgs literal.
Supplied == {[k \in {a \in ArgKeys : p[a] # "absent"} |->
                 IF p[k] = "empty" THEN "" ELSE ArgSample[k]]
             : p \in [ArgKeys -> {"absent", "empty", "sample"}]}

\* Elements of a source list: mappings and values of other types.
MapElem(m) == [type |-> "map", m |-> m]
OtherElem(type) == [type |-> type, m |-> EmptyMap]

Only(keys, shape) == [k \in FieldKeys |-> IF k \in keys THEN shape ELSE "absent"]

BatchElems ==
    {MapElem(MkDoc(Only({"value", "type"}, "sample"), "1", "absent")),
     MapElem(MkDoc(Only(FieldKeys, "sample"), "2", "int")),
     MapElem(MkDoc(Only(FieldKeys, "sample"), "3", "absent")),
     MapElem(MkDoc(Only({"value", "type", "cidr"}, "sample"), "3", "absent")),
     MapElem(MkDoc(Only({"type", "scope"}, "sample"), "1", "absent")),
     MapElem(MkDoc(Only({"value", "type", "spaceid"}, "int"), "2", "absent")),
     MapElem(MkDoc(Only(FieldKeys, "sample"), "99", "absent")),
     MapElem(MkDoc(Only(FieldKeys, "sample"), "absent", "absent")),
     OtherElem("string"),
     OtherElem("int")}

SourceLists == UNION {[1..n -> BatchElems] : n \in 0..MaxLen}

----------------------------------------------------------------------------
\* State.

VARIABLES
    op,          \* the operation called
    pc,          \* "call": not yet run; "loop": inside importAddresses' loop;
                 \* "done": returned; "panic": a type assertion failed
    source,      \* importAddress' argument
    supplied,    \* the fields set in newAddress' argument
    ret,         \* what newAddress / importAddress returned
    sourceList,  \* importAddresses' argument
    i,           \* importAddresses: index of the element looked at
    result,      \* importAddresses: the local result slice
    calls,       \* importAddresses: the indices importAddress was called for
    bret         \* what importAddresses returned

vars == <<op, pc, source, supplied, ret, sourceList, i, result, calls, bret>>

NoRet == Failed(NoErr)
NoBatchRet == [result |-> <<>>, err |-> NoErr]

Init ==
    /\ pc = "call"
    /\ ret = NoRet
    /\ i = 0
    /\ result = <<>>
    /\ calls = <<>>
    /\ bret = NoBatchRet
    /\ \/ op = "newAddress" /\ supplied \in Supplied
          /\ source = EmptyMap /\ sourceList = <<>>
       \/ op = "importAddress" /\ source \in Docs
          /\ supplied = EmptyMap /\ sourceList = <<>>
       \/ op = "importAddresses" /\ sourceList \in SourceLists
          /\ supplied = EmptyMap /\ source = EmptyMap

\* newAddress(args)
NewAddress ==
    /\ pc = "call" /\ op = "newAddress"
    /\ ret' = newAddress(AddressArgs(supplied))
    /\ pc' = "done"
    /\ UNCHANGED <<op, source, supplied, sourceList, i, result, calls, bret>>

\* importAddress(source)
ImportAddress ==
    /\ pc = "call" /\ op = "importAddress"
    /\ \E o \in importAddress(source) :
          /\ ret' = o
          /\ pc' = IF o.panic THEN "panic" ELSE "done"
    /\ UNCHANGED <<op, source, supplied, sourceList, i, result, calls, bret>>

\* Slip: the new address is put in front of the ones collected so far.
AppendResult_Prepend(res, addr) == <<addr>> \o res

\* result = append(result, addr)
AppendResult(res, addr) == Append(res, addr)

\* importAddresses(sourceList): entry, with var result []*address.
ImportAddressesEnter ==
    /\ pc = "call" /\ op = "importAddresses"
    /\ pc' = "loop"
    /\ i' = 0
    /\ result' = <<>>
    /\ UNCHANGED <<op, source, supplied, ret, sourceList, calls, bret>>

\* Slip: an element that cannot be imported is skipped and the loop goes on.
ImportAddressesElement_SkipsFailed ==
    /\ pc = "loop" /\ i < Len(sourceList)
    /\ LET value == sourceList[i + 1]
       IN  IF value.type # "map"
           THEN /\ i' = i + 1
                /\ UNCHANGED <<pc, bret, result, calls, ret>>
           ELSE \E o \in importAddress(value.m) :
                   /\ calls' = Append(calls, i)
                   /\ ret' = o
                   /\ IF o.panic
                      THEN pc' = "panic" /\ UNCHANGED <<i, result, bret>>
                      ELSE IF o.err # NoErr
                      THEN /\ i' = i + 1
                           /\ UNCHANGED <<pc, bret, result>>
                      ELSE /\ result' = AppendResult(result, o.addr[1])
                           /\ i' = i + 1
                           /\ UNCHANGED <<pc, bret>>
    /\ UNCHANGED <<op, source, supplied, sourceList>>

\* One iteration of the loop, for the element at index i.
ImportAddressesElement ==
    /\ pc = "loop" /\ i < Len(sourceList)
    /\ LET value == sourceList[i + 1]
       IN  IF value.type # "map"
           THEN /\ bret' = [result |-> <<>>, err |-> UnexpectedValuef(i, value)]
                /\ pc' = "done"
                /\ UNCHANGED <<i, result, calls, ret>>
           ELSE \E o \in importAddress(value.m) :
                   /\ calls' = Append(calls, i)
                   /\ ret' = o
                   /\ IF o.panic
                      THEN pc' = "panic" /\ UNCHANGED <<i, result, bret>>
                      ELSE IF o.err # NoErr
                      THEN /\ bret' = [result |-> <<>>, err |-> Trace(o.err)]
                           /\ pc' = "done"
                           /\ UNCHANGED <<i, result>>
                      ELSE /\ result' = AppendResult(result, o.addr[1])
                           /\ i' = i + 1
                           /\ UNCHANGED <<pc, bret>>
    /\ UNCHANGED <<op, source, supplied, sourceList>>

\* The loop is over: return result, nil.
ImportAddressesReturn ==
    /\ pc = "loop" /\ i = Len(sourceList)
    /\ bret' = [result |-> result, err |-> NoErr]
    /\ pc' = "done"
    /\ UNCHANGED <<op, source, supplied, ret, sourceList, i, result, calls>>

Next ==
    \/ NewAddress
    \/ ImportAddress
    \/ ImportAddressesEnter
    \/ ImportAddressesElement
    \/ ImportAddressesReturn

Spec == Init /\ [][Next]_vars

----------------------------------------------------------------------------
\* What the claims speak of, stated without the model's field specifications.

\* The fields of version V's specification.
FieldsAt(V) ==
    CASE V = 1 -> {"value", "type", "scope", "origin"}
      [] V = 2 -> {"value", "type", "scope", "origin", "spaceid"}
      [] V = 3 -> {"value", "type", "scope", "origin", "spaceid", "cidr"}

RequiredFields == {"value", "type"}

SchemaCheckFailed(V) ==
    CASE V = 1 -> "address v1 schema check failed"
      [] V = 2 -> "address v2 schema check failed"
      [] V = 3 -> "address v3 schema check failed"

\* The document carries the integer version tag V.
Tagged(doc, V) == "version" \in DOMAIN doc /\ doc["version"] = IntV(V)

PresentString(doc, k) == k \in DOMAIN doc /\ doc[k].kind = "string"
PresentNonString(doc, k) == k \in DOMAIN doc /\ doc[k].kind # "string"

\* Field k of the address a well-formed document of version V stands for.
Expect(doc, V, k) == IF k \in FieldsAt(V) /\ k \in DOMAIN doc THEN doc[k].str ELSE ""

ExpectedAddress(doc, V) ==
    [Version |-> V, Value_ |-> Expect(doc, V, "value"), Type_ |-> Expect(doc, V, "type"),
     Scope_ |-> Expect(doc, V, "scope"), Origin_ |-> Expect(doc, V, "origin"),
     SpaceID_ |-> Expect(doc, V, "spaceid"), CIDR_ |-> Expect(doc, V, "cidr")]

\* value and type are strings and every other field of V is absent or a string.
WellFormed(doc, V) ==
    /\ \A k \in RequiredFields : PresentString(doc, k)
    /\ \A k \in FieldsAt(V) : ~PresentNonString(doc, k)

ImportAddressRan == op = "importAddress" /\ pc # "call"

\* C1: a well-formed document tagged V (1, 2 or 3) is imported without error
\* as an address of Version V whose fields of V's specification are the
\* document's values, "" when absent, and whose later fields are "".
C1_ImportKeepsVersionAndFields ==
    ImportAddressRan =>
        \A V \in 1..3 :
            (Tagged(source, V) /\ WellFormed(source, V)) =>
                /\ pc = "done"
                /\ ret.err = NoErr
                /\ ret.addr = <<ExpectedAddress(source, V)>>

\* A version-2 document that also carries a cidr has been imported.
C1_Witness ==
    /\ ImportAddressRan
    /\ Tagged(source, 2) /\ WellFormed(source, 2)
    /\ \A k \in FieldKeys : PresentString(source, k) /\ source[k].str # ""
    /\ ret.addr = <<ExpectedAddress(source, 2)>>
    /\ ret.addr[1].CIDR_ = "" /\ ret.addr[1].SpaceID_ = "3"

\* The largest key of the dispatch table.
MaxVersion == CHOOSE v \in DOMAIN addressDeserializationFuncs :
                  \A w \in DOMAIN addressDeserializationFuncs : w <= v

\* C2: newAddress always returns an address of the largest version of the
\* dispatch table whose six fields are the arguments, "" for an omitted one.
C2_NewAddressLatestVersion ==
    (op = "newAddress" /\ pc # "call") =>
        /\ pc = "done"
        /\ ret.err = NoErr
        /\ Len(ret.addr) = 1
        /\ ret.addr[1].Version = MaxVersion
        /\ ret.addr[1].Version = 3
        /\ \A k \in ArgKeys :
              LET got == CASE k = "Value" -> ret.addr[1].Value_
                           [] k = "Type" -> ret.addr[1].Type_
                           [] k = "Scope" -> ret.addr[1].Scope_
                           [] k = "Origin" -> ret.addr[1].Origin_
                           [] k = "SpaceID" -> ret.addr[1].SpaceID_
                           [] k = "CIDR" -> ret.addr[1].CIDR_
              IN  got = IF k \in DOMAIN supplied THEN supplied[k] ELSE ""

\* newAddress has run with only Value and Type supplied.
C2_Witness ==
    /\ op = "newAddress" /\ pc = "done"
    /\ DOMAIN supplied = {"Value", "Type"}
    /\ supplied["Value"] = "10.0.0.1"
    /\ ret.addr[1].Version = 3 /\ ret.addr[1].SpaceID_ = ""

\* C3: a document whose version tag is an integer outside the dispatch table
\* is refused with a NotValid error naming that version, whatever its other
\* keys; no schema check of any version is attempted.
C3_UnsupportedVersionNotValid ==
    (/\ ImportAddressRan
     /\ "version" \in DOMAIN source
     /\ source["version"].kind = "int"
     /\ source["version"].num \notin {1, 2, 3}) =>
            /\ pc = "done"
            /\ ret.addr = <<>>
            /\ ret.err.kind = "NotValid"
            /\ ret.err.version = source["version"].num
            /\ ret.err.annot = <<>>

\* A document tagged 99 with no value and an integer scope has been refused.
C3_Witness ==
    /\ ImportAddressRan
    /\ Tagged(source, 99)
    /\ "value" \notin DOMAIN source
    /\ PresentNonString(source, "scope")
    /\ ret.err.kind = "NotValid" /\ ret.err.version = 99

----------------------------------------------------------------------------
\* importAddresses.

\* The element cannot be imported on its own.
ElementFails(e) == e.type # "map" \/ \A o \in importAddress(e.m) : o.err # NoErr

\* The zero-based index of the first element of the list that cannot be
\* imported, -1 when there is none.
FirstFailing(list) ==
    IF \E j \in 1..Len(list) : ElementFails(list[j])
    THEN (CHOOSE j \in 1..Len(list) :
             /\ ElementFails(list[j])
             /\ \A k \in 1..(j - 1) : ~ElementFails(list[k])) - 1
    ELSE 0 - 1

ImportAddressesFailed == op = "importAddresses" /\ pc = "done" /\ bret.err # NoErr

\* C4: when importAddresses fails, the error carries the zero-based index of
\* the first failing element and the cause, whether the element is no
\* mapping, has no usable version, or fails its schema check.
C4_ErrorCarriesIndex ==
    ImportAddressesFailed =>
        LET f == FirstFailing(sourceList)
            e == sourceList[f + 1]
        IN  /\ f >= 0
            /\ bret.err.index = f
            /\ IF e.type # "map"
               THEN bret.err.kind = "UnexpectedValue" /\ bret.err.got = e.type
               ELSE \E o \in importAddress(e.m) :
                       /\ bret.err.kind = o.err.kind
                       /\ bret.err.annot = o.err.annot

\* C5: elements are imported in input order; when element f is the first
\* that fails, importAddresses returns an error and a nil result, and
\* importAddress is never called for an element after f.
C5_FailFastNoPartialResult ==
    op = "importAddresses" =>
        LET f == FirstFailing(sourceList)
        IN  /\ \A n \in 1..Len(calls) : calls[n] = n - 1
            /\ f >= 0 => \A n \in 1..Len(calls) : calls[n] <= f
            /\ (pc = "done" /\ f >= 0) =>
                   /\ bret.err # NoErr
                   /\ bret.result = <<>>
                   /\ i = f
            /\ (pc = "done" /\ bret.err # NoErr) => (f >= 0 /\ bret.result = <<>>)

\* A list of three whose second element fails and whose third would import:
\* the first was imported and then dropped, the third never looked at.
C5_Witness ==
    /\ ImportAddressesFailed
    /\ Len(sourceList) = 3
    /\ FirstFailing(sourceList) = 1
    /\ ~ElementFails(sourceList[3])
    /\ calls = <<0, 1>>
    /\ Len(result) = 1
    /\ bret.result = <<>>

\* C6: when every element is a mapping that imports, importAddresses returns
\* no error and, at each position, the address importAddress gives for the
\* element at that position, each with its own Version.
C6_SuccessKeepsLengthAndOrder ==
    (/\ op = "importAddresses" /\ pc = "done"
     /\ \A j \in 1..Len(sourceList) : ~ElementFails(sourceList[j])) =>
        /\ bret.err = NoErr
        /\ Len(bret.result) = Len(sourceList)
        /\ \A j \in 1..Len(sourceList) :
              /\ Returned(bret.result[j]) \in importAddress(sourceList[j].m)
              /\ Tagged(sourceList[j].m, bret.result[j].Version)

\* Three documents of versions 1, 3 and 2, in that order, have been imported.
C6_Witness ==
    /\ op = "importAddresses" /\ pc = "done" /\ bret.err = NoErr
    /\ Len(sourceList) = 3 /\ Len(bret.result) = 3
    /\ Tagged(sourceList[1].m, 1) /\ Tagged(sourceList[2].m, 3) /\ Tagged(sourceList[3].m, 2)
    /\ bret.result[1].Version = 1 /\ bret.result[2].Version = 3 /\ bret.result[3].Version = 2

\* The empty list has been imported.
C6_WitnessEmpty ==
    op = "importAddresses" /\ pc = "done" /\ sourceList = <<>> /\ bret = NoBatchRet

----------------------------------------------------------------------------
\* Schema checks.

\* importAddress has run on a document tagged V, a version of the table.
ImportedAt(V) == ImportAddressRan /\ Tagged(source, V)

RequiredAbsent == \E k \in RequiredFields : k \notin DOMAIN source

\* C7: a document tagged V with value or type absent is refused with a
\* field-missing error annotated with V, whichever optional fields it has;
\* an absent scope, origin, spaceid or cidr is never reported missing.
C7_RequiredAbsentIsFieldMissing ==
    \A V \in 1..3 :
        ImportedAt(V) =>
            /\ RequiredAbsent =>
                  /\ pc = "done"
                  /\ ret.addr = <<>>
                  /\ ret.err.kind = "FieldMissing"
                  /\ ret.err.annot = <<SchemaCheckFailed(V)>>
            /\ ret.err.kind = "FieldMissing" => ret.err.field \in RequiredFields

\* C7 amended: such a document is refused with an error annotated with V;
\* the error is the field-missing error of an absent required field when no
\* field of V's specification is present with a non-string value, and may
\* otherwise be the field-type error of such a field.
C7_RequiredAbsentRefused ==
    \A V \in 1..3 :
        ImportedAt(V) =>
            /\ RequiredAbsent =>
                  /\ pc = "done"
                  /\ ret.addr = <<>>
                  /\ ret.err.annot = <<SchemaCheckFailed(V)>>
                  /\ ret.err.kind \in {"FieldMissing", "FieldType"}
                  /\ (\A k \in FieldsAt(V) : ~PresentNonString(source, k)) =>
                         ret.err.kind = "FieldMissing"
                  /\ ret.err.kind = "FieldType" =>
                         (ret.err.field \in FieldsAt(V)
                          /\ PresentNonString(source, ret.err.field))
            /\ ret.err.kind = "FieldMissing" =>
                  (ret.err.field \in RequiredFields /\ ret.err.field \notin DOMAIN source)

\* A version-2 document with only its type has been refused for its value.
C7_Witness ==
    /\ ImportedAt(2)
    /\ DOMAIN source = {"version", "type"}
    /\ ret.addr = <<>>
    /\ ret.err.kind = "FieldMissing" /\ ret.err.field = "value"
    /\ ret.err.annot = <<"address v2 schema check failed">>

\* The keys of the document that version V looks at.
Strip(doc, V) == [k \in (DOMAIN doc) \cap (FieldsAt(V) \cup {"version"}) |-> doc[k]]

\* C8: keys outside version V's specification are ignored: the document is
\* imported exactly as the document without them is, whatever their values.
C8_ExtraKeysIgnored ==
    \A V \in 1..3 :
        ImportedAt(V) =>
            /\ importAddress(source) = importAddress(Strip(source, V))
            /\ ret \in importAddress(Strip(source, V))

\* A version-1 document with an integer spaceid, a cidr and an unknown key has
\* been imported.
C8_Witness ==
    /\ ImportedAt(1)
    /\ PresentNonString(source, "spaceid")
    /\ PresentString(source, "cidr")
    /\ "provider-id" \in DOMAIN source
    /\ ret.err = NoErr
    /\ ret.addr = <<ExpectedAddress(source, 1)>>

SpecFieldNonString(V) == \E k \in FieldsAt(V) : PresentNonString(source, k)

\* C9: a document tagged V with a non-string value under a field of V's
\* specification is refused with a field-type error annotated with V; the
\* value is never replaced by the default and no type assertion fails.
C9_NonStringIsFieldType ==
    \A V \in 1..3 :
        (ImportedAt(V) /\ SpecFieldNonString(V)) =>
            /\ pc = "done"
            /\ ret.addr = <<>>
            /\ ret.err.kind = "FieldType"
            /\ ret.err.annot = <<SchemaCheckFailed(V)>>

\* C9 amended: such a document is refused with an error annotated with V and
\* no type assertion fails; the error is the field-type error of such a field
\* when value and type are both present, and may otherwise be the
\* field-missing error of the absent one.
C9_NonStringRefused ==
    /\ pc # "panic"
    /\ \A V \in 1..3 :
          (ImportedAt(V) /\ SpecFieldNonString(V)) =>
              /\ pc = "done"
              /\ ret.addr = <<>>
              /\ ret.err.annot = <<SchemaCheckFailed(V)>>
              /\ ret.err.kind \in {"FieldMissing", "FieldType"}
              /\ ~RequiredAbsent => ret.err.kind = "FieldType"
              /\ ret.err.kind = "FieldType" =>
                     (ret.err.field \in FieldsAt(V)
                      /\ PresentNonString(source, ret.err.field))

\* A version-3 document whose optional scope is null has been refused.
C9_Witness ==
    /\ ImportedAt(3)
    /\ PresentString(source, "value") /\ PresentString(source, "type")
    /\ "scope" \in DOMAIN source /\ source["scope"] = NilV
    /\ ret.addr = <<>>
    /\ ret.err.kind = "FieldType" /\ ret.err.field = "scope"
    /\ ret.err.annot = <<"address v3 schema check failed">>

----------------------------------------------------------------------------
\* Layering of the field specifications.

\* spec is base with field k added as an optional string defaulting to "".
ExtendsBy(spec, base, k) ==
    /\ k \notin DOMAIN base.fields
    /\ DOMAIN spec.fields = (DOMAIN base.fields) \cup {k}
    /\ \A f \in DOMAIN base.fields : spec.fields[f] = base.fields[f]
    /\ spec.fields[k] = "string"
    /\ DOMAIN spec.defaults = (DOMAIN base.defaults) \cup {k}
    /\ \A f \in DOMAIN base.defaults : spec.defaults[f] = base.defaults[f]
    /\ spec.defaults[k] = StringV("")

====
